---- MODULE Spec2Model ----
(***************************************************************************)
(* CSM Commit Monitor (main.go): the persisted collection of monitored     *)
(* repositories (config.json), the add / remove operations, and the poll   *)
(* cycle that compares each entry's stored cursor (LastCommit) with the    *)
(* newest-first commit listing of the hosting platform.                    *)
(*                                                                         *)
(* Abstractions.  A commit is its SHA, a small integer; a larger integer   *)
(* is a commit created later.  A URL is the sequence of its                *)
(* "/"-separated segments after the scheme, so                             *)
(* "https://github.com/acme/app/" is <<"github.com","acme","app","">>.     *)
(* The hosting platform keeps one newest-first history per                 *)
(* (owner, repo, branch); a fetch returns its first PerPage commits.       *)
(* Reading and writing config.json, the GitHub request and the webhook     *)
(* POST can each fail; the outcome is an input of the step.  A failed      *)
(* write leaves config.json as it was.                                     *)
(***************************************************************************)
EXTENDS Integers, Sequences, FiniteSets, TLC

----------------------------------------------------------------------------
(* Bounds of the model. *)

\* number of distinct commit identifiers
NumCommits == 3
\* longest upstream history
MaxHist == 3
\* page size of a listing (per_page=10 in main.go:257, scaled down)
PerPage == 2
\* most entries the collection holds
MaxRepos == 2

----------------------------------------------------------------------------
(* Values. *)

CommitIds == 1..NumCommits

U_Main  == <<"github.com", "acme", "app">>
U_Slash == <<"github.com", "acme", "app", "">>
U_Other == <<"gitlab.com", "acme", "app">>

\* the URLs an operator passes to --add / --remove
URLS == {U_Main, U_Slash, U_Other}

\* the values of --note
NOTES == {"", "audit"}

\* outcome of reading or writing config.json
IO == {"ok", "err"}

\* outcome of the GitHub request: status 200 with a parsable body, or not
NET == {"ok", "err"}

\* the call that fails during one add or remove, if any: reading
\* config.json, the GitHub request, writing config.json.  The first failure
\* ends the invocation, so one failure per invocation covers every outcome.
FAULTS == {"none", "load", "fetch", "save"}

OutcomeOf(fault, call) == IF fault = call THEN "err" ELSE "ok"

\* status of the webhook POST
POST == {200, 204, 500}

\* hosts whose name ends in "github.com": the unanchored pattern of
\* parseGithubRepoURL matches them
GithubHosts == {"github.com", "www.github.com"}

\* getDefaultDiscordConfig().Template
DefaultTemplate == "default"

\* getDefaultDiscordConfig().Username and .AvatarURL
DefaultUsername == "CSM Commit Monitor"
DefaultAvatarURL == "Unknown-8.jpg"

\* templates an operator can put in config.json: unset (any valid template
\* renders like the built-in one), or one that text/template cannot parse
\* or execute
TEMPLATES == {"", "broken"}

Range(s) == {s[k] : k \in 1..Len(s)}

\* the first n elements of s
FirstN(s, n) == SubSeq(s, 1, IF Len(s) < n THEN Len(s) ELSE n)

Min(S) == CHOOSE x \in S : \A y \in S : x <= y

VARIABLES
    file,       \* config.json on disk
    upstream,   \* the platform: history of each branch, newest first
    pc,         \* checkRepositories: "idle" or "loop"
    config,     \* checkRepositories: the loaded Config
    i,          \* checkRepositories: index of the entry being checked
    log,        \* checkRepositories: what each loop iteration so far did
    result,     \* what the latest invocation returned
    watch,      \* history: one notified commit of one entry, chosen when a
                \* notification carrying it is delivered
    intact,     \* history: since watch was set, the entry's branch has only
                \* grown and every poll cycle was saved
    prev,       \* history: one entry of the latest saved poll cycle and the
                \* listing that cycle fetched for it
    landed,     \* history: one entry since its add, one commit that
                \* landed on its branch after the add, and in how many poll
                \* cycles that commit was collected as new
    overlap,    \* history: the latest add or remove that ran while a poll
                \* cycle was in its loop
    cmp,        \* an input of the comparison of checkForNewCommits, and
                \* its output once computed
    call        \* an input of parseGithubRepoURL or of
                \* sendDiscordNotification, and its output once computed

prog == <<file, upstream, pc, config, i, log, result>>
vars == <<file, upstream, pc, config, i, log, result, watch, intact, prev,
          landed, overlap, cmp, call>>

----------------------------------------------------------------------------
(* Pure functions of main.go. *)

\* strings.TrimSuffix(url, "/")
TrimSlash(url) ==
    IF Len(url) >= 2 /\ url[Len(url)] = ""
        THEN SubSeq(url, 1, Len(url) - 1)
        ELSE url

\* positions where github\.com/([^/]+)/([^/]+) matches
MatchAt(t) ==
    {k \in 1..Len(t) : /\ t[k] \in GithubHosts
                       /\ k + 2 <= Len(t)
                       /\ t[k + 1] # ""
                       /\ t[k + 2] # ""}

parseGithubRepoURL(url) ==
    LET t == TrimSlash(url)
        m == MatchAt(t)
    IN  IF m = {}
            THEN [err |-> TRUE, owner |-> "", repo |-> "", branch |-> ""]
            ELSE LET k == Min(m)
                 IN  [err    |-> FALSE,
                      owner  |-> t[k + 1],
                      repo   |-> t[k + 2],
                      branch |-> IF /\ k + 4 <= Len(t)
                                    /\ t[k + 3] = "tree"
                                    /\ t[k + 4] # ""
                                     THEN t[k + 4]
                                     ELSE "main"]

\* the branches the platform hosts
RepoKeys == {<<p.owner, p.repo, p.branch>> :
                p \in {q \in {parseGithubRepoURL(u) : u \in URLS} : ~q.err}}

\* the branch a URL names
KeyOf(url) ==
    LET p == parseGithubRepoURL(url) IN <<p.owner, p.repo, p.branch>>

\* fetchLatestCommits asking for a page one commit shorter
fetchLatestCommits_shortPage(owner, repo, branch, net) ==
    IF net = "ok" /\ <<owner, repo, branch>> \in RepoKeys
        THEN [err |-> FALSE,
              commits |-> FirstN(upstream[<<owner, repo, branch>>],
                                 PerPage - 1)]
        ELSE [err |-> TRUE, commits |-> <<>>]

\* GET /repos/owner/repo/commits?sha=branch&per_page=PerPage
fetchLatestCommits(owner, repo, branch, net) ==
    IF net = "ok" /\ <<owner, repo, branch>> \in RepoKeys
        THEN [err |-> FALSE,
              commits |-> FirstN(upstream[<<owner, repo, branch>>], PerPage)]
        ELSE [err |-> TRUE, commits |-> <<>>]

\* collectNew with the stored SHA collected before the loop stops
RECURSIVE collectNew_inclusive(_, _)
collectNew_inclusive(commits, lastCommit) ==
    IF commits = <<>> THEN <<>>
    ELSE IF Head(commits) = lastCommit THEN <<Head(commits)>>
    ELSE <<Head(commits)>> \o collectNew_inclusive(Tail(commits), lastCommit)

\* collectNew with "continue" where the loop has "break"
RECURSIVE collectNew_continue(_, _)
collectNew_continue(commits, lastCommit) ==
    IF commits = <<>> THEN <<>>
    ELSE IF Head(commits) = lastCommit
        THEN collectNew_continue(Tail(commits), lastCommit)
    ELSE <<Head(commits)>> \o collectNew_continue(Tail(commits), lastCommit)

\* collectNew collecting the commits listed after the stored SHA
collectNew_older(commits, lastCommit) ==
    LET at == {k \in 1..Len(commits) : commits[k] = lastCommit}
    IN  IF at = {} THEN <<>>
        ELSE SubSeq(commits, Min(at) + 1, Len(commits))

\* the loop of checkForNewCommits: collect until the stored SHA is met
RECURSIVE collectNew(_, _)
collectNew(commits, lastCommit) ==
    IF commits = <<>> THEN <<>>
    ELSE IF Head(commits) = lastCommit THEN <<>>
    ELSE <<Head(commits)>> \o collectNew(Tail(commits), lastCommit)

\* checkForNewCommits after the fetch: nothing for an empty listing,
\* otherwise what the loop collects
newCommitsOf(commits, lastCommit) ==
    IF Len(commits) = 0 THEN <<>> ELSE collectNew(commits, lastCommit)

\* checkForNewCommits failing on an empty listing, as addRepository does
checkForNewCommits_emptyIsError(repo, net) ==
    LET f == fetchLatestCommits(repo.Owner, repo.Repo, repo.Branch, net)
    IN  IF f.err \/ Len(f.commits) = 0
            THEN [err |-> TRUE, commits |-> <<>>, new |-> <<>>]
        ELSE [err |-> FALSE, commits |-> f.commits,
              new |-> newCommitsOf(f.commits, repo.LastCommit)]

checkForNewCommits(repo, net) ==
    LET f == fetchLatestCommits(repo.Owner, repo.Repo, repo.Branch, net)
    IN  IF f.err THEN [err |-> TRUE, commits |-> <<>>, new |-> <<>>]
        ELSE [err |-> FALSE, commits |-> f.commits,
              new |-> newCommitsOf(f.commits, repo.LastCommit)]

\* sendDiscordNotification: render the template, POST it
sendDiscordNotification(template, post) ==
    LET t == IF template = "" THEN DefaultTemplate ELSE template
    IN  IF t = "broken" THEN "TemplateError"
        ELSE IF post # 200 /\ post # 204 THEN "DeliveryError"
        ELSE "ok"

\* the parts of a rendered message: literal text of the template, a field
\* of the entry, the formatted list of commits
Literal(s) == [part |-> "literal", literal |-> s]
Field(name, v) == [part |-> name, field |-> v]
Content(commits) == [part |-> "Content", commits |-> commits]

\* what text/template makes of a template and the TemplateData of an entry:
\* the built-in template is a heading, the entry's fields, the formatted
\* commits and a footer; a template without text renders as no text
renderTemplate(template, repo, commits) ==
    IF template = "broken" THEN [err |-> TRUE, text |-> <<>>]
    ELSE IF template = DefaultTemplate
        THEN [err |-> FALSE,
              text |-> <<Literal("New Commits Detected!"),
                         Field("Owner", repo.Owner),
                         Field("Repo", repo.Repo),
                         Field("Branch", repo.Branch)>>
                       \o (IF repo.Note # ""
                              THEN <<Field("Note", repo.Note)>> ELSE <<>>)
                       \o <<Field("URL", repo.URL), Content(commits),
                            Literal("Monitored by CSM - Commit Monitor")>>]
    ELSE IF template = "content"
        THEN [err |-> FALSE, text |-> <<Content(commits)>>]
    ELSE [err |-> FALSE, text |-> <<>>]

\* notificationContent without the fallback to the built-in template
notificationContent_noFallback(template, repo, commits) ==
    renderTemplate(template, repo, commits)

\* sendDiscordNotification up to the webhook payload: the Content it posts
notificationContent(template, repo, commits) ==
    LET t == IF template = "" THEN DefaultTemplate ELSE template
    IN  renderTemplate(t, repo, commits)

----------------------------------------------------------------------------
(* config.json. *)

NoFile == [exists |-> FALSE, Repositories |-> <<>>, Template |-> "",
           Username |-> "", AvatarURL |-> ""]

NoConfig == [Repositories |-> <<>>, Template |-> "", Username |-> "",
             AvatarURL |-> ""]

\* what loadConfig returns when config.json does not exist
DefaultConfig ==
    [Repositories |-> <<>>, Template |-> DefaultTemplate,
     Username |-> DefaultUsername, AvatarURL |-> DefaultAvatarURL]

\* loadConfig returning the error of os.ReadFile when config.json does not
\* exist
loadConfig_absentIsError(io) ==
    IF io = "err" \/ ~file.exists THEN [err |-> TRUE, config |-> NoConfig]
    ELSE [err |-> FALSE,
          config |-> [Repositories |-> file.Repositories,
                      Template |-> IF file.Template = ""
                                       THEN DefaultTemplate
                                       ELSE file.Template,
                      Username |-> IF file.Username = ""
                                       THEN DefaultUsername
                                       ELSE file.Username,
                      AvatarURL |-> IF file.AvatarURL = ""
                                        THEN DefaultAvatarURL
                                        ELSE file.AvatarURL]]

loadConfig(io) ==
    IF io = "err" THEN [err |-> TRUE, config |-> NoConfig]
    ELSE IF ~file.exists
        THEN [err |-> FALSE, config |-> DefaultConfig]
    ELSE [err |-> FALSE,
          config |-> [Repositories |-> file.Repositories,
                      Template |-> IF file.Template = ""
                                       THEN DefaultTemplate
                                       ELSE file.Template,
                      Username |-> IF file.Username = ""
                                       THEN DefaultUsername
                                       ELSE file.Username,
                      AvatarURL |-> IF file.AvatarURL = ""
                                        THEN DefaultAvatarURL
                                        ELSE file.AvatarURL]]

\* the file after saveConfig(c)
saveConfig(c, io) ==
    IF io = "ok"
        THEN [exists |-> TRUE, Repositories |-> c.Repositories,
              Template |-> c.Template, Username |-> c.Username,
              AvatarURL |-> c.AvatarURL]
        ELSE file

URLsOf(repos) == {repos[k].URL : k \in 1..Len(repos)}

\* withoutURL comparing the repository a URL names, not the URL
RECURSIVE withoutURL_sameRepo(_, _)
withoutURL_sameRepo(repos, url) ==
    IF repos = <<>> THEN <<>>
    ELSE IF <<Head(repos).Owner, Head(repos).Repo, Head(repos).Branch>>
                # KeyOf(url)
        THEN <<Head(repos)>> \o withoutURL_sameRepo(Tail(repos), url)
    ELSE withoutURL_sameRepo(Tail(repos), url)

\* the entries of repos whose URL is not url, in order
RECURSIVE withoutURL(_, _)
withoutURL(repos, url) ==
    IF repos = <<>> THEN <<>>
    ELSE IF Head(repos).URL # url
        THEN <<Head(repos)>> \o withoutURL(Tail(repos), url)
    ELSE withoutURL(Tail(repos), url)

----------------------------------------------------------------------------
(* Operations. *)

NoWatch == [url |-> <<>>, commit |-> 0]

NoPrev == [url |-> <<>>, commits |-> <<>>, again |-> FALSE]

NoCmp == [commits |-> <<>>, lastCommit |-> 0, done |-> FALSE, new |-> <<>>]

NoCall == [op |-> "none"]

NoLanded == [url |-> <<>>, since |-> 0, commit |-> 0, seen |-> 0,
             polled |-> FALSE, ok |-> FALSE]

NoOverlap == [op |-> "none", url |-> <<>>, lost |-> FALSE]

Result(op, url, note, err) ==
    [op |-> op, url |-> url, note |-> note, err |-> err]

\* addError without the duplicate check
addError_noDuplicateCheck(url, fault) ==
    LET ld == loadConfig(OutcomeOf(fault, "load"))
        p  == parseGithubRepoURL(url)
        f  == fetchLatestCommits(p.owner, p.repo, p.branch,
                                 OutcomeOf(fault, "fetch"))
    IN  IF ld.err THEN "LoadError"
        ELSE IF p.err THEN "InvalidReference"
        ELSE IF f.err THEN "FetchError"
        ELSE IF Len(f.commits) = 0 THEN "EmptyHistory"
        ELSE IF fault = "save" THEN "SaveError"
        ELSE "none"

\* addError with the duplicate check after the fetch
addError_fetchFirst(url, fault) ==
    LET ld == loadConfig(OutcomeOf(fault, "load"))
        p  == parseGithubRepoURL(url)
        f  == fetchLatestCommits(p.owner, p.repo, p.branch,
                                 OutcomeOf(fault, "fetch"))
    IN  IF ld.err THEN "LoadError"
        ELSE IF p.err THEN "InvalidReference"
        ELSE IF f.err THEN "FetchError"
        ELSE IF Len(f.commits) = 0 THEN "EmptyHistory"
        ELSE IF url \in URLsOf(ld.config.Repositories) THEN "DuplicateEntry"
        ELSE IF fault = "save" THEN "SaveError"
        ELSE "none"

\* the error addRepository(url, note) returns, "none" if it succeeds
addError(url, fault) ==
    LET ld == loadConfig(OutcomeOf(fault, "load"))
        p  == parseGithubRepoURL(url)
        f  == fetchLatestCommits(p.owner, p.repo, p.branch,
                                 OutcomeOf(fault, "fetch"))
    IN  IF ld.err THEN "LoadError"
        ELSE IF url \in URLsOf(ld.config.Repositories) THEN "DuplicateEntry"
        ELSE IF p.err THEN "InvalidReference"
        ELSE IF f.err THEN "FetchError"
        ELSE IF Len(f.commits) = 0 THEN "EmptyHistory"
        ELSE IF fault = "save" THEN "SaveError"
        ELSE "none"

\* newRepository taking the oldest commit of the listing
newRepository_oldest(url, p, commits, note) ==
    [URL        |-> url,
     Owner      |-> p.owner,
     Repo       |-> p.repo,
     Branch     |-> p.branch,
     LastCommit |-> commits[Len(commits)],
     Note       |-> note]

\* the Repository that addRepository builds
newRepository(url, p, commits, note) ==
    [URL        |-> url,
     Owner      |-> p.owner,
     Repo       |-> p.repo,
     Branch     |-> p.branch,
     LastCommit |-> commits[1],
     Note       |-> note]

\* addFile with the entry appended and saved before the fetch is checked
addFile_saveBeforeFetch(url, note, fault) ==
    LET ld == loadConfig(OutcomeOf(fault, "load"))
        p  == parseGithubRepoURL(url)
        f  == fetchLatestCommits(p.owner, p.repo, p.branch,
                                 OutcomeOf(fault, "fetch"))
        e  == addError(url, fault)
    IN  IF e \in {"none", "SaveError"}
            THEN saveConfig(
                    [ld.config EXCEPT !.Repositories =
                        Append(@, newRepository(url, p, f.commits, note))],
                    OutcomeOf(fault, "save"))
        ELSE IF e \in {"FetchError", "EmptyHistory"}
            THEN saveConfig(
                    [ld.config EXCEPT !.Repositories =
                        Append(@, newRepository(url, p, <<0>>, note))],
                    "ok")
        ELSE file

\* config.json after addRepository(url, note)
addFile(url, note, fault) ==
    LET ld == loadConfig(OutcomeOf(fault, "load"))
        p  == parseGithubRepoURL(url)
        f  == fetchLatestCommits(p.owner, p.repo, p.branch,
                                 OutcomeOf(fault, "fetch"))
    IN  IF addError(url, fault) \in {"none", "SaveError"}
            THEN saveConfig(
                    [ld.config EXCEPT !.Repositories =
                        Append(@, newRepository(url, p, f.commits, note))],
                    OutcomeOf(fault, "save"))
            ELSE file

addRepository(url, note, fault) ==
    LET e == addError(url, fault)
    IN  /\ pc = "idle"
        /\ e # "none" \/ Len(file.Repositories) < MaxRepos
        /\ file' = addFile(url, note, fault)
        /\ result' = Result("add", url, note, e)
        /\ UNCHANGED <<upstream, pc, config, i, log>>

removeError(url, fault) ==
    LET ld == loadConfig(OutcomeOf(fault, "load"))
    IN  IF ld.err THEN "LoadError"
        ELSE IF url \notin URLsOf(ld.config.Repositories) THEN "NotFound"
        ELSE IF fault = "save" THEN "SaveError"
        ELSE "none"

\* config.json after removeRepository(url)
removeFile(url, fault) ==
    LET ld == loadConfig(OutcomeOf(fault, "load"))
    IN  IF removeError(url, fault) \in {"none", "SaveError"}
            THEN saveConfig(
                    [ld.config EXCEPT !.Repositories = withoutURL(@, url)],
                    OutcomeOf(fault, "save"))
            ELSE file

removeRepository(url, fault) ==
    LET e == removeError(url, fault)
    IN  /\ pc = "idle"
        /\ file' = removeFile(url, fault)
        /\ result' = Result("remove", url, "", e)
        /\ UNCHANGED <<upstream, pc, config, i, log>>

\* checkRepositories_load going on to the save when there is nothing to
\* monitor, where checkRepositories returns
checkRepositories_load_saveEmpty(ioLoad) ==
    LET ld == loadConfig(ioLoad)
    IN  /\ pc = "idle"
        /\ IF ld.err \/ Len(ld.config.Repositories) = 0
             THEN /\ result' = Result("poll", <<>>, "",
                                      IF ld.err THEN "LoadError"
                                                ELSE "NothingToMonitor")
                  /\ file' = IF ld.err THEN file
                             ELSE saveConfig(ld.config, "ok")
                  /\ UNCHANGED <<pc, config, i>>
             ELSE /\ pc' = "loop"
                  /\ config' = ld.config
                  /\ i' = 1
                  /\ result' = Result("poll", <<>>, "", "running")
                  /\ UNCHANGED file
        /\ log' = <<>>
        /\ UNCHANGED upstream

\* checkRepositories, up to the loop: load, return if nothing to monitor
checkRepositories_load(ioLoad) ==
    LET ld == loadConfig(ioLoad)
    IN  /\ pc = "idle"
        /\ IF ld.err \/ Len(ld.config.Repositories) = 0
             THEN /\ result' = Result("poll", <<>>, "",
                                      IF ld.err THEN "LoadError"
                                                ELSE "NothingToMonitor")
                  /\ UNCHANGED <<pc, config, i>>
             ELSE /\ pc' = "loop"
                  /\ config' = ld.config
                  /\ i' = 1
                  /\ result' = Result("poll", <<>>, "", "running")
        /\ log' = <<>>
        /\ UNCHANGED <<file, upstream>>

\* advance that never moves the cursor
advance_stay(repo, new) == repo.LastCommit

\* advance to the oldest of the new commits
advance_oldest(repo, new) ==
    IF Len(new) = 0 THEN repo.LastCommit ELSE new[Len(new)]

\* the LastCommit the loop body leaves in config.Repositories[i]
advance(repo, new) ==
    IF Len(new) = 0 THEN repo.LastCommit ELSE new[1]

\* checkRepositories_entry with the cursor update inside the branch taken
\* when the notification succeeded
checkRepositories_entry_keepOnError(net, post) ==
    /\ pc = "loop"
    /\ i <= Len(config.Repositories)
    /\ LET repo == config.Repositories[i]
           c    == checkForNewCommits(repo, net)
           sent == IF c.err \/ Len(c.new) = 0 THEN "none"
                   ELSE sendDiscordNotification(config.Template, post)
       IN  /\ log' = Append(log, [url |-> repo.URL,
                                   was |-> repo.LastCommit, err |-> c.err,
                                   commits |-> c.commits, new |-> c.new,
                                   notify |-> sent])
           /\ config' = IF c.err \/ sent # "ok" THEN config
                        ELSE [config EXCEPT
                                !.Repositories[i].LastCommit =
                                    advance(repo, c.new)]
    /\ i' = i + 1
    /\ UNCHANGED <<file, upstream, pc, result>>

\* checkRepositories_entry with "break" where the loop has "continue"
checkRepositories_entry_breakOnError(net, post) ==
    /\ pc = "loop"
    /\ i <= Len(config.Repositories)
    /\ LET repo == config.Repositories[i]
           c    == checkForNewCommits(repo, net)
           sent == IF c.err \/ Len(c.new) = 0 THEN "none"
                   ELSE sendDiscordNotification(config.Template, post)
       IN  /\ log' = Append(log, [url |-> repo.URL,
                                   was |-> repo.LastCommit, err |-> c.err,
                                   commits |-> c.commits, new |-> c.new,
                                   notify |-> sent])
           /\ config' = IF c.err THEN config
                        ELSE [config EXCEPT
                                !.Repositories[i].LastCommit =
                                    advance(repo, c.new)]
           /\ i' = IF c.err THEN Len(config.Repositories) + 1 ELSE i + 1
    /\ UNCHANGED <<file, upstream, pc, result>>

\* checkRepositories_entry with saveConfig called in the loop body, after
\* the cursor update
checkRepositories_entry_saveEach(net, post) ==
    /\ pc = "loop"
    /\ i <= Len(config.Repositories)
    /\ LET repo == config.Repositories[i]
           c    == checkForNewCommits(repo, net)
           sent == IF c.err \/ Len(c.new) = 0 THEN "none"
                   ELSE sendDiscordNotification(config.Template, post)
           upd  == IF c.err THEN config
                   ELSE [config EXCEPT
                           !.Repositories[i].LastCommit =
                               advance(repo, c.new)]
       IN  /\ log' = Append(log, [url |-> repo.URL,
                                   was |-> repo.LastCommit, err |-> c.err,
                                   commits |-> c.commits, new |-> c.new,
                                   notify |-> sent])
           /\ config' = upd
           /\ file' = IF c.err \/ Len(c.new) = 0 THEN file
                      ELSE saveConfig(upd, "ok")
    /\ i' = i + 1
    /\ UNCHANGED <<upstream, pc, result>>

\* checkRepositories_entry ranging over the collection from its last entry
\* to its first
checkRepositories_entry_reverse(net, post) ==
    /\ pc = "loop"
    /\ i <= Len(config.Repositories)
    /\ LET j    == Len(config.Repositories) + 1 - i
           repo == config.Repositories[j]
           c    == checkForNewCommits(repo, net)
           sent == IF c.err \/ Len(c.new) = 0 THEN "none"
                   ELSE sendDiscordNotification(config.Template, post)
       IN  /\ log' = Append(log, [url |-> repo.URL,
                                   was |-> repo.LastCommit, err |-> c.err,
                                   commits |-> c.commits, new |-> c.new,
                                   notify |-> sent])
           /\ config' = IF c.err THEN config
                        ELSE [config EXCEPT
                                !.Repositories[j].LastCommit =
                                    advance(repo, c.new)]
    /\ i' = i + 1
    /\ UNCHANGED <<file, upstream, pc, result>>

\* checkRepositories_entry sending a notification after every fetch that
\* succeeded, new commits or not
checkRepositories_entry_notifyAll(net, post) ==
    /\ pc = "loop"
    /\ i <= Len(config.Repositories)
    /\ LET repo == config.Repositories[i]
           c    == checkForNewCommits(repo, net)
           sent == IF c.err THEN "none"
                   ELSE sendDiscordNotification(config.Template, post)
       IN  /\ log' = Append(log, [url |-> repo.URL,
                                   was |-> repo.LastCommit, err |-> c.err,
                                   commits |-> c.commits, new |-> c.new,
                                   notify |-> sent])
           /\ config' = IF c.err THEN config
                        ELSE [config EXCEPT
                                !.Repositories[i].LastCommit =
                                    advance(repo, c.new)]
    /\ i' = i + 1
    /\ UNCHANGED <<file, upstream, pc, result>>

\* checkRepositories_entry retiring an entry once its change was notified,
\* where the loop body advances it
checkRepositories_entry_retire(net, post) ==
    /\ pc = "loop"
    /\ i <= Len(config.Repositories)
    /\ LET repo == config.Repositories[i]
           c    == checkForNewCommits(repo, net)
           sent == IF c.err \/ Len(c.new) = 0 THEN "none"
                   ELSE sendDiscordNotification(config.Template, post)
       IN  /\ log' = Append(log, [url |-> repo.URL,
                                   was |-> repo.LastCommit, err |-> c.err,
                                   commits |-> c.commits, new |-> c.new,
                                   notify |-> sent])
           /\ config' = IF c.err \/ Len(c.new) = 0 THEN config
                        ELSE [config EXCEPT
                                !.Repositories =
                                    withoutURL(@, repo.URL)]
           /\ i' = IF c.err \/ Len(c.new) = 0 THEN i + 1 ELSE i
    /\ UNCHANGED <<file, upstream, pc, result>>

\* one iteration of the loop of checkRepositories
checkRepositories_entry(net, post) ==
    /\ pc = "loop"
    /\ i <= Len(config.Repositories)
    /\ LET repo == config.Repositories[i]
           c    == checkForNewCommits(repo, net)
           sent == IF c.err \/ Len(c.new) = 0 THEN "none"
                   ELSE sendDiscordNotification(config.Template, post)
       IN  /\ log' = Append(log, [url |-> repo.URL,
                                   was |-> repo.LastCommit, err |-> c.err,
                                   commits |-> c.commits, new |-> c.new,
                                   notify |-> sent])
           /\ config' = IF c.err THEN config
                        ELSE [config EXCEPT
                                !.Repositories[i].LastCommit =
                                    advance(repo, c.new)]
    /\ i' = i + 1
    /\ UNCHANGED <<file, upstream, pc, result>>

\* checkRepositories_save reading config.json again and writing what it
\* holds now, with the cursors of the loop
checkRepositories_save_merge(ioSave) ==
    /\ pc = "loop"
    /\ i > Len(config.Repositories)
    /\ LET cursorOf(r) ==
             IF r.URL \in URLsOf(config.Repositories)
                 THEN (CHOOSE q \in Range(config.Repositories) :
                          q.URL = r.URL).LastCommit
                 ELSE r.LastCommit
           merged ==
             [k \in 1..Len(file.Repositories) |->
                [file.Repositories[k] EXCEPT
                    !.LastCommit = cursorOf(file.Repositories[k])]]
       IN  file' = saveConfig([config EXCEPT !.Repositories = merged],
                              ioSave)
    /\ result' = Result("poll", <<>>, "",
                        IF ioSave = "err" THEN "SaveError" ELSE "none")
    /\ pc' = "idle"
    /\ config' = NoConfig
    /\ i' = 0
    /\ log' = <<>>
    /\ UNCHANGED upstream

\* checkRepositories, after the loop: save and return
checkRepositories_save(ioSave) ==
    /\ pc = "loop"
    /\ i > Len(config.Repositories)
    /\ file' = saveConfig(config, ioSave)
    /\ result' = Result("poll", <<>>, "",
                        IF ioSave = "err" THEN "SaveError" ELSE "none")
    /\ pc' = "idle"
    /\ config' = NoConfig
    /\ i' = 0
    /\ log' = <<>>
    /\ UNCHANGED upstream

----------------------------------------------------------------------------
(* The platform. *)

\* a commit lands on a branch; identifiers are numbered in order of creation,
\* so a commit is newer than every commit below it
Push(key, c) ==
    /\ Len(upstream[key]) < MaxHist
    /\ \A d \in Range(upstream[key]) : d < c
    /\ upstream' = [upstream EXCEPT ![key] = <<c>> \o @]
    /\ UNCHANGED <<file, pc, config, i, log, result>>

\* the branch is reset to the parent of its newest commit (a force push)
ForcePush(key) ==
    /\ upstream[key] # <<>>
    /\ upstream' = [upstream EXCEPT ![key] = Tail(@)]
    /\ UNCHANGED <<file, pc, config, i, log, result>>

----------------------------------------------------------------------------
(* The program and the platform. *)

InitProg ==
    /\ file \in {NoFile} \cup
                {[exists |-> TRUE, Repositories |-> <<>>, Template |-> t,
                  Username |-> "", AvatarURL |-> ""] : t \in TEMPLATES}
    /\ upstream = [k \in RepoKeys |-> <<>>]
    /\ pc = "idle"
    /\ config = NoConfig
    /\ i = 0
    /\ log = <<>>
    /\ result = Result("none", <<>>, "", "none")

InitHist ==
    /\ watch = NoWatch
    /\ intact = FALSE
    /\ prev = NoPrev
    /\ landed = NoLanded
    /\ overlap = NoOverlap

Init == InitProg /\ InitHist /\ cmp = NoCmp /\ call = NoCall

\* the history variables are not kept
NoHistory == UNCHANGED <<watch, intact, prev, landed, overlap, cmp, call>>

Next ==
    \/ \E url \in URLS, note \in NOTES, fault \in FAULTS :
          addRepository(url, note, fault) /\ NoHistory
    \/ \E url \in URLS, fault \in FAULTS \ {"fetch"} :
          removeRepository(url, fault) /\ NoHistory
    \/ \E ioLoad \in IO : checkRepositories_load(ioLoad) /\ NoHistory
    \/ \E net \in NET, post \in POST :
          checkRepositories_entry(net, post) /\ NoHistory
    \/ \E ioSave \in IO : checkRepositories_save(ioSave) /\ NoHistory
    \/ \E key \in RepoKeys, c \in CommitIds : Push(key, c) /\ NoHistory
    \/ \E key \in RepoKeys : ForcePush(key) /\ NoHistory

Spec == Init /\ [][Next]_vars

----------------------------------------------------------------------------
(* The same steps with a history of notifications kept.  Which notified    *)
(* commit is watched is a free choice, so every (entry, commit) pair is    *)
(* watched in some behaviour.  Invocations that fail before they touch     *)
(* config.json change nothing but result, so the inputs of add and remove  *)
(* are those under which they reach their duplicate / not-found checks.    *)

ValidURLS == {u \in URLS : ~parseGithubRepoURL(u).err}

\* the entry with this URL was added or removed: a watch on it ends
TrackEntryChange(url) ==
    IF result'.err = "none" /\ watch.url = url
        THEN watch' = NoWatch /\ intact' = FALSE
        ELSE UNCHANGED <<watch, intact>>

\* a notification was delivered: one of its commits may become the watch
TrackEntry ==
    LET it == log'[Len(log')]
    IN  \/ UNCHANGED <<watch, intact>>
        \/ /\ watch = NoWatch
           /\ it.notify = "ok"
           /\ \E c \in Range(it.new) : watch' = [url |-> it.url, commit |-> c]
           /\ intact' = TRUE

\* the cursors of a cycle whose save failed are lost
TrackSave ==
    /\ intact' = (intact /\ result'.err # "SaveError")
    /\ UNCHANGED watch

\* a force push rewrites the history of every entry on that branch
TrackForcePush(key) ==
    /\ intact' = (intact /\ KeyOf(watch.url) # key)
    /\ UNCHANGED watch

\* the step leaves the watch as it is
TrackNothing == UNCHANGED <<watch, intact>>

\* the other history variables are not kept
TrackOnly == UNCHANGED <<prev, landed, overlap, cmp, call>>

NextTrack ==
    \/ \E url \in ValidURLS :
          addRepository(url, "", "none") /\ TrackEntryChange(url)
            /\ TrackOnly
    \/ \E url \in ValidURLS :
          removeRepository(url, "none") /\ TrackEntryChange(url)
            /\ TrackOnly
    \/ checkRepositories_load("ok") /\ TrackNothing /\ TrackOnly
    \/ \E net \in NET, post \in POST :
          checkRepositories_entry(net, post) /\ TrackEntry /\ TrackOnly
    \/ \E ioSave \in IO :
          checkRepositories_save(ioSave) /\ TrackSave /\ TrackOnly
    \/ \E key \in RepoKeys, c \in CommitIds :
          Push(key, c) /\ TrackNothing /\ TrackOnly
    \/ \E key \in RepoKeys :
          ForcePush(key) /\ TrackForcePush(key) /\ TrackOnly

InitTrack == Init /\ file = NoFile

SpecTrack == InitTrack /\ [][NextTrack]_vars

----------------------------------------------------------------------------
(* The same steps with a history of the latest saved poll cycle kept: one  *)
(* of its entries, freely chosen, and the listing fetched for it.  The     *)
(* next cycle that checks this entry ends the history.                     *)

\* the entry with this URL was added or removed
RepollEntryChange(url) ==
    prev' = IF result'.err = "none" /\ prev.url = url THEN NoPrev ELSE prev

\* the next cycle checks the entry: note whether the listing is the same
RepollEntry ==
    LET it == log'[Len(log')]
    IN  prev' = IF it.url # prev.url THEN prev
                ELSE IF ~it.err /\ it.commits = prev.commits
                    THEN [prev EXCEPT !.again = TRUE]
                ELSE NoPrev

\* a cycle returns: if it saved, one of the entries it fetched is kept
RepollSave ==
    LET fetched == {k \in 1..Len(log) : ~log[k].err}
    IN  IF result'.err = "none" /\ fetched # {}
            THEN \E k \in fetched :
                    prev' = [url |-> log[k].url, commits |-> log[k].commits,
                             again |-> FALSE]
            ELSE prev' = NoPrev

\* the other history variables are not kept
RepollOnly == UNCHANGED <<watch, intact, landed, overlap, cmp, call>>

NextRepoll ==
    \/ \E url \in ValidURLS :
          addRepository(url, "", "none") /\ RepollEntryChange(url)
            /\ RepollOnly
    \/ \E url \in ValidURLS :
          removeRepository(url, "none") /\ RepollEntryChange(url)
            /\ RepollOnly
    \/ checkRepositories_load("ok") /\ UNCHANGED prev /\ RepollOnly
    \/ \E net \in NET, post \in POST :
          checkRepositories_entry(net, post) /\ RepollEntry /\ RepollOnly
    \/ \E ioSave \in IO :
          checkRepositories_save(ioSave) /\ RepollSave /\ RepollOnly
    \/ \E key \in RepoKeys, c \in CommitIds :
          Push(key, c) /\ UNCHANGED prev /\ RepollOnly
    \/ \E key \in RepoKeys :
          ForcePush(key) /\ UNCHANGED prev /\ RepollOnly

SpecRepoll == InitTrack /\ [][NextRepoll]_vars

----------------------------------------------------------------------------
(* The poll cycle under every outcome of the GitHub request, the webhook   *)
(* POST and the final save, on collections built by adds and removes that  *)
(* succeed, from every initial config.json.                                *)

\* http.Post returned an error: there is no response and no status
NoResponse == 0

NextPoll ==
    \/ \E url \in ValidURLS :
          addRepository(url, "", "none") /\ NoHistory
    \/ \E url \in ValidURLS :
          removeRepository(url, "none") /\ NoHistory
    \/ checkRepositories_load("ok") /\ NoHistory
    \/ \E net \in NET, post \in POST \cup {NoResponse} :
          checkRepositories_entry(net, post) /\ NoHistory
    \/ \E ioSave \in IO : checkRepositories_save(ioSave) /\ NoHistory
    \/ \E key \in RepoKeys, c \in CommitIds : Push(key, c) /\ NoHistory
    \/ \E key \in RepoKeys : ForcePush(key) /\ NoHistory

SpecPoll == Init /\ [][NextPoll]_vars

\* the same, on collections whose entries also carry notes, from an absent
\* config.json
NextNotes ==
    \/ \E url \in ValidURLS, note \in NOTES \ {""} :
          addRepository(url, note, "none") /\ NoHistory
    \/ NextPoll

SpecNotes == InitTrack /\ [][NextNotes]_vars

\* the poll cycle, with config.json also failing to load
NextLoad ==
    \/ checkRepositories_load("err") /\ NoHistory
    \/ NextPoll

SpecLoad == Init /\ [][NextLoad]_vars

\* the add and remove subcommands with every input and every failure,
\* between poll cycles whose requests and deliveries succeed
NextAdmin ==
    \/ \E url \in URLS, note \in NOTES, fault \in FAULTS :
          addRepository(url, note, fault) /\ NoHistory
    \/ \E url \in URLS, fault \in FAULTS \ {"fetch"} :
          removeRepository(url, fault) /\ NoHistory
    \/ \E ioLoad \in IO : checkRepositories_load(ioLoad) /\ NoHistory
    \/ checkRepositories_entry("ok", 200) /\ NoHistory
    \/ \E ioSave \in IO : checkRepositories_save(ioSave) /\ NoHistory
    \/ \E key \in RepoKeys, c \in CommitIds : Push(key, c) /\ NoHistory
    \/ \E key \in RepoKeys : ForcePush(key) /\ NoHistory

SpecAdmin == InitTrack /\ [][NextAdmin]_vars

----------------------------------------------------------------------------
(* Branches that only grow, by up to a page and two commits, with a        *)
(* history kept of one entry from its add: how many commits landed on its  *)
(* branch since the entry was added or last checked, one of the commits    *)
(* that landed, freely chosen, and the number of poll cycles that          *)
(* collected it as new.  The history is marked (ok = FALSE) once more than *)
(* a page of commits landed between two checks of the entry, a fetch for   *)
(* the entry failed, or a cycle's save failed.                             *)

\* longest history of a branch that only grows
MaxLanded == PerPage + 2

LandedIds == 1..MaxLanded

\* a commit lands on a branch; no commit is ever taken off it
Land(key, c) ==
    /\ Len(upstream[key]) < MaxLanded
    /\ \A d \in Range(upstream[key]) : d < c
    /\ upstream' = [upstream EXCEPT ![key] = <<c>> \o @]
    /\ UNCHANGED <<file, pc, config, i, log, result>>

\* an entry was added: it may become the one followed; the entry followed
\* was removed: it no longer is
LandedEntryChange(url) ==
    IF result'.err # "none" THEN UNCHANGED landed
    ELSE IF landed.url = url THEN landed' = NoLanded
    ELSE IF landed = NoLanded /\ result'.op = "add"
        THEN \/ UNCHANGED landed
             \/ landed' = [NoLanded EXCEPT !.url = url, !.ok = TRUE]
    ELSE UNCHANGED landed

\* a commit landed on the branch of the entry followed: one more since its
\* last check; it may become the commit followed
LandedLand(key, c) ==
    IF landed.url = <<>> \/ KeyOf(landed.url) # key THEN UNCHANGED landed
    ELSE LET more == [landed EXCEPT
                        !.since = IF @ > PerPage THEN @ ELSE @ + 1,
                        !.ok = @ /\ landed.since + 1 <= PerPage]
         IN  \/ landed' = more
             \/ /\ landed.commit = 0
                /\ landed' = [more EXCEPT !.commit = c]

\* the loop checked the entry followed
LandedEntry ==
    LET it == log'[Len(log')]
    IN  IF it.url # landed.url THEN UNCHANGED landed
        ELSE IF it.err THEN landed' = [landed EXCEPT !.ok = FALSE]
        ELSE IF landed.commit = 0 THEN landed' = [landed EXCEPT !.since = 0]
        ELSE landed' = [landed EXCEPT
                          !.since = 0,
                          !.polled = TRUE,
                          !.seen = IF landed.commit \in Range(it.new)
                                       THEN (IF @ < 2 THEN @ + 1 ELSE @)
                                       ELSE @]

\* the cursors of a cycle whose save failed are lost
LandedSave ==
    landed' = [landed EXCEPT !.ok = @ /\ result'.err # "SaveError"]

\* the other history variables are not kept
LandedOnly == UNCHANGED <<watch, intact, prev, overlap, cmp, call>>

NextLanded ==
    \/ \E url \in ValidURLS :
          addRepository(url, "", "none") /\ LandedEntryChange(url)
            /\ LandedOnly
    \/ \E url \in ValidURLS :
          removeRepository(url, "none") /\ LandedEntryChange(url)
            /\ LandedOnly
    \/ checkRepositories_load("ok") /\ UNCHANGED landed /\ LandedOnly
    \/ \E net \in NET :
          checkRepositories_entry(net, 200) /\ LandedEntry /\ LandedOnly
    \/ \E ioSave \in IO :
          checkRepositories_save(ioSave) /\ LandedSave /\ LandedOnly
    \/ \E key \in RepoKeys, c \in LandedIds :
          Land(key, c) /\ LandedLand(key, c) /\ LandedOnly

SpecLanded == InitTrack /\ [][NextLanded]_vars

----------------------------------------------------------------------------
(* Two invocations at a time: while one runs checkRepositories and is in   *)
(* its loop, another runs addRepository or removeRepository from its load  *)
(* to its save.  Nothing in main.go keeps them apart.  A history is kept   *)
(* of the latest such add or remove that succeeded, and of whether the     *)
(* save of the cycle undid it.                                             *)

\* addRepository of another invocation, during the loop of a poll cycle
addRepository_overlapping(url, note, fault) ==
    LET e == addError(url, fault)
    IN  /\ pc = "loop"
        /\ e # "none" \/ Len(file.Repositories) < MaxRepos
        /\ file' = addFile(url, note, fault)
        /\ result' = Result("add", url, note, e)
        /\ UNCHANGED <<upstream, pc, config, i, log>>

\* removeRepository of another invocation, during the loop of a poll cycle
removeRepository_overlapping(url, fault) ==
    LET e == removeError(url, fault)
    IN  /\ pc = "loop"
        /\ file' = removeFile(url, fault)
        /\ result' = Result("remove", url, "", e)
        /\ UNCHANGED <<upstream, pc, config, i, log>>

\* an add or remove ran during the loop: if it succeeded it is the latest
OverlapDuring(op, url) ==
    overlap' = IF result'.err = "none"
                   THEN [op |-> op, url |-> url, lost |-> FALSE]
                   ELSE overlap

\* the cycle returns: what it saved may lack the entry added, or hold the
\* entry removed
OverlapSave ==
    overlap' =
        [overlap EXCEPT
            !.lost = \/ /\ overlap.op = "add"
                        /\ overlap.url \notin URLsOf(file'.Repositories)
                     \/ /\ overlap.op = "remove"
                        /\ overlap.url \in URLsOf(file'.Repositories)]

\* an invocation starts when no other is running: the history ends
OverlapNone == overlap' = NoOverlap

\* the other history variables are not kept
OverlapOnly == UNCHANGED <<watch, intact, prev, landed, cmp, call>>

NextOverlap ==
    \/ \E url \in ValidURLS :
          addRepository(url, "", "none") /\ OverlapNone /\ OverlapOnly
    \/ \E url \in ValidURLS :
          removeRepository(url, "none") /\ OverlapNone /\ OverlapOnly
    \/ \E url \in ValidURLS :
          addRepository_overlapping(url, "", "none")
            /\ OverlapDuring("add", url) /\ OverlapOnly
    \/ \E url \in ValidURLS :
          removeRepository_overlapping(url, "none")
            /\ OverlapDuring("remove", url) /\ OverlapOnly
    \/ checkRepositories_load("ok") /\ OverlapNone /\ OverlapOnly
    \/ \E net \in NET :
          checkRepositories_entry(net, 200) /\ UNCHANGED overlap
            /\ OverlapOnly
    \/ \E ioSave \in IO :
          checkRepositories_save(ioSave) /\ OverlapSave /\ OverlapOnly
    \/ \E key \in RepoKeys, c \in CommitIds :
          Push(key, c) /\ UNCHANGED overlap /\ OverlapOnly

SpecOverlap == InitTrack /\ [][NextOverlap]_vars

----------------------------------------------------------------------------
(* The comparison of checkForNewCommits on its own: every listing of at    *)
(* most MaxListing commits, repeated identifiers included, against every   *)
(* stored cursor, one of them (0) a SHA that no listing holds.             *)

\* longest listing compared
MaxListing == 4

CompareIds == 1..(NumCommits + 1)

Listings == UNION {[1..n -> CompareIds] : n \in 0..MaxListing}

InitCompare ==
    /\ InitProg /\ file = NoFile
    /\ InitHist
    /\ call = NoCall
    /\ cmp \in [commits : Listings, lastCommit : {0} \cup CompareIds,
                 done : {FALSE}, new : {<<>>}]

NextCompare ==
    /\ ~cmp.done
    /\ cmp' = [cmp EXCEPT !.done = TRUE,
                          !.new = newCommitsOf(cmp.commits, cmp.lastCommit)]
    /\ UNCHANGED <<prog, watch, intact, prev, landed, overlap, call>>

SpecCompare == InitCompare /\ [][NextCompare]_vars

----------------------------------------------------------------------------
(* parseGithubRepoURL on its own: every URL of at most MaxSegs segments    *)
(* over a few segment values, the empty segment among them.                *)

\* most segments of a URL parsed
MaxSegs == 5

Segs == {"github.com", "www.github.com", "gitlab.com", "acme", "app",
         "tree", "dev", ""}

ParseURLs == UNION {[1..n -> Segs] : n \in 0..MaxSegs}

InitParse ==
    /\ InitProg /\ file = NoFile
    /\ InitHist
    /\ cmp = NoCmp
    /\ call \in {[op |-> "parse", url |-> u, done |-> FALSE,
                   out |-> parseGithubRepoURL(<<>>)] : u \in ParseURLs}

NextParse ==
    /\ call.op = "parse" /\ ~call.done
    /\ call' = [call EXCEPT !.done = TRUE,
                            !.out = parseGithubRepoURL(call.url)]
    /\ UNCHANGED <<prog, watch, intact, prev, landed, overlap, cmp>>

SpecParse == InitParse /\ [][NextParse]_vars

----------------------------------------------------------------------------
(* The message of a notification on its own: every template, given to      *)
(* sendDiscordNotification as it is or through a config.json that          *)
(* loadConfig reads, for entries with and without a note and every         *)
(* newest-first list of new commits.                                       *)

\* the templates rendered: none, the built-in one, one that text/template
\* rejects, and {{.Content}}
RenderTemplates == {"", DefaultTemplate, "broken", "content"}

\* newest-first lists of new commits, as a listing yields them
NewLists ==
    {l \in UNION {[1..n -> CommitIds] : n \in 1..PerPage} :
        \A j, k \in 1..Len(l) : j < k => l[j] > l[k]}

RenderRepos ==
    {newRepository(u, parseGithubRepoURL(u), <<c>>, note) :
        u \in ValidURLS, c \in CommitIds, note \in NOTES}

NoContent == [via |-> "none", err |-> FALSE, text |-> <<>>]

\* config.json is absent, or holds the template of the call
InitRender ==
    /\ call \in [op : {"render"}, template : RenderTemplates,
                  repo : RenderRepos, commits : NewLists, done : {FALSE},
                  out : {NoContent}]
    /\ file \in {NoFile,
                  [exists |-> TRUE, Repositories |-> <<>>,
                   Template |-> call.template, Username |-> "",
                   AvatarURL |-> ""]}
    /\ upstream = [k \in RepoKeys |-> <<>>]
    /\ pc = "idle"
    /\ config = NoConfig
    /\ i = 0
    /\ log = <<>>
    /\ result = Result("none", <<>>, "", "none")
    /\ InitHist
    /\ cmp = NoCmp

\* sendDiscordNotification is handed the template as it is
RenderGiven ==
    /\ call.op = "render" /\ ~call.done
    /\ LET c == notificationContent(call.template, call.repo, call.commits)
       IN  call' = [call EXCEPT !.done = TRUE,
                                !.out = [via |-> "given", err |-> c.err,
                                         text |-> c.text]]
    /\ UNCHANGED <<prog, watch, intact, prev, landed, overlap, cmp>>

\* sendDiscordNotification is handed the template that loadConfig returns
RenderLoaded ==
    /\ call.op = "render" /\ ~call.done
    /\ LET c == notificationContent(loadConfig("ok").config.Template,
                                    call.repo, call.commits)
       IN  call' = [call EXCEPT !.done = TRUE,
                                !.out = [via |-> "loaded", err |-> c.err,
                                         text |-> c.text]]
    /\ UNCHANGED <<prog, watch, intact, prev, landed, overlap, cmp>>

NextRender == RenderGiven \/ RenderLoaded

SpecRender == InitRender /\ [][NextRender]_vars

----------------------------------------------------------------------------
(* Properties. *)

\* the step is an addRepository / removeRepository that did something; one
\* that repeats the failure result already holds changes nothing
IsAdd == result'.op = "add" /\ result' # result
IsRemove == result'.op = "remove" /\ result' # result

\* the step is one iteration of the loop of checkRepositories
IsEntry == pc = "loop" /\ Len(log') = Len(log) + 1

\* the step is the save and return of checkRepositories
IsReturn == pc = "loop" /\ pc' = "idle"

LastOf(s) == s[Len(s)]

FirstAt(commits, lastCommit) ==
    IF \E k \in 1..Len(commits) : commits[k] = lastCommit
        THEN Min({k \in 1..Len(commits) : commits[k] = lastCommit})
        ELSE Len(commits) + 1

\* C2: for every cursor and listing, checkForNewCommits returns exactly the
\* commits of the listing before the first occurrence of the cursor, in
\* order; all of the listing when the cursor does not occur in it.
C2_NewCommitsPrecedeCursor ==
    cmp.done =>
        cmp.new = SubSeq(cmp.commits, 1,
                         FirstAt(cmp.commits, cmp.lastCommit) - 1)

\* cursor abc123 (2) against [xyz789, def456, abc123, old111] (4,3,2,1)
C2_Witness ==
    /\ cmp.done
    /\ cmp.commits = <<4, 3, 2, 1>> /\ cmp.lastCommit = 2
    /\ cmp.new = <<4, 3>>

\* the cursor the cycle must leave in entry k
CursorWanted(k) ==
    IF log[k].new # <<>> THEN log[k].commits[1] ELSE log[k].was

\* C3: when a poll cycle returns, every entry for which it collected new
\* commits has the newest commit of the listing fetched for it as its
\* LastCommit, however many commits were collected, and every other entry
\* has the LastCommit it was loaded with; this is the collection handed to
\* saveConfig, and the one in config.json once the save succeeds.
C3_CursorIsNewestOfListing ==
    [][IsReturn =>
        \A k \in 1..Len(log) :
            /\ config.Repositories[k].LastCommit = CursorWanted(k)
            /\ result'.err = "none" =>
                    file'.Repositories[k].LastCommit = CursorWanted(k)]_vars

\* a cycle about to return with one entry for which two commits were
\* collected and one entry for which none was
C3_Witness ==
    /\ pc = "loop" /\ i > Len(config.Repositories)
    /\ \E k \in 1..Len(log) :
          /\ Len(log[k].new) = 2
          /\ config.Repositories[k].LastCommit = log[k].commits[1]
    /\ \E k \in 1..Len(log) : ~log[k].err /\ log[k].new = <<>>

C5_UniqueURLs ==
    \A j, k \in 1..Len(file.Repositories) :
        j # k => file.Repositories[j].URL # file.Repositories[k].URL

\* two entries for the same branch under two URL strings, kept by adds, a
\* failed remove and a saved poll cycle
C5_Witness ==
    /\ Len(file.Repositories) = 2
    /\ file.Repositories[1].Owner = file.Repositories[2].Owner
    /\ file.Repositories[1].Repo = file.Repositories[2].Repo
    /\ file.Repositories[1].Branch = file.Repositories[2].Branch
    /\ result = Result("poll", <<>>, "", "none")

\* C6: addRepository with a URL that config.json already holds fails with
\* DuplicateEntry (given that config.json can be read at all) and leaves
\* config.json as it is, whatever the note.
C6_DuplicateAddRejected ==
    [][(IsAdd /\ result'.url \in URLsOf(file.Repositories))
            => /\ result'.err \in {"DuplicateEntry", "LoadError"}
               /\ file' = file]_vars

\* a duplicate add with another note than the stored one was rejected
C6_Witness ==
    /\ result.op = "add" /\ result.err = "DuplicateEntry"
    /\ \E k \in 1..Len(file.Repositories) :
          /\ file.Repositories[k].URL = result.url
          /\ file.Repositories[k].Note # result.note
    /\ Len(file.Repositories) = 2

C8_AddAppendsEntry ==
    [][(IsAdd /\ result'.err = "none")
            => LET p == parseGithubRepoURL(result'.url)
               IN  file'.Repositories =
                     file.Repositories \o
                     <<[URL        |-> result'.url,
                        Owner      |-> p.owner,
                        Repo       |-> p.repo,
                        Branch     |-> p.branch,
                        LastCommit |-> upstream[KeyOf(result'.url)][1],
                        Note       |-> result'.note]>>]_vars

\* a second entry was added with a note, on a branch of two or more commits
C8_Witness ==
    /\ result.op = "add" /\ result.err = "none"
    /\ Len(file.Repositories) = 2
    /\ file.Repositories[2].URL = result.url
    /\ file.Repositories[2].Note = "audit"
    /\ Len(upstream[KeyOf(result.url)]) >= 2

\* C9: removeRepository with a URL that config.json does not hold fails with
\* NotFound (given that config.json can be read) and writes nothing; one
\* that succeeds held the URL and leaves the other entries, in their order
\* and with their fields, one entry fewer.
C9_RemoveDeletesThatEntry ==
    [][IsRemove =>
        /\ result'.url \notin URLsOf(file.Repositories)
              => /\ result'.err \in {"NotFound", "LoadError"}
                 /\ file' = file
        /\ result'.url \in URLsOf(file.Repositories)
              => result'.err \in {"none", "LoadError", "SaveError"}
        /\ result'.err = "none"
              => /\ file'.Repositories =
                       SelectSeq(file.Repositories,
                                 LAMBDA r : r.URL # result'.url)
                 /\ Len(file'.Repositories) = Len(file.Repositories) - 1
        /\ result'.err # "none" => file' = file]_vars

\* the first of two entries for the same branch was removed
C9_Witness ==
    /\ result.op = "remove" /\ result.err = "none"
    /\ Len(file.Repositories) = 1
    /\ KeyOf(result.url) = KeyOf(file.Repositories[1].URL)

\* C10 as stated: an entry whose notification failed with TemplateError
\* keeps the LastCommit it was loaded with.
C10_TemplateErrorKeepsCursor ==
    pc = "loop" =>
        \A k \in 1..Len(log) :
            log[k].notify = "TemplateError"
                => config.Repositories[k].LastCommit = log[k].was

\* C11: when the webhook answers with a status other than 200 or 204, or
\* the POST itself fails, the error is the outcome recorded for the entry,
\* the entry's LastCommit still becomes the newest commit of its listing,
\* no other entry is touched and the loop goes on to the next entry.
C11_DeliveryErrorAdvances ==
    [][(IsEntry /\ LastOf(log').notify = "DeliveryError")
            => /\ LastOf(log').new # <<>>
               /\ config'.Repositories[i].LastCommit =
                      LastOf(log').commits[1]
               /\ \A k \in 1..Len(config.Repositories) :
                      k # i => config'.Repositories[k] =
                                  config.Repositories[k]
               /\ pc' = "loop" /\ i' = i + 1]_vars

\* the first entry's delivery failed, its cursor moved, and the second
\* entry was then checked and its notification delivered
C11_Witness ==
    /\ pc = "loop" /\ Len(log) = 2
    /\ log[1].notify = "DeliveryError"
    /\ config.Repositories[1].LastCommit = log[1].commits[1]
    /\ config.Repositories[1].LastCommit # log[1].was
    /\ log[2].notify = "ok"

\* C12: when the GitHub request for an entry fails or its body cannot be
\* parsed, the iteration changes nothing in the loaded collection, sends no
\* notification and collects no commit, and the loop goes on to the next
\* entry; the cycle returns only after every entry was checked, and its
\* save, when it succeeds, stores the cursors of all entries as the loop
\* left them.
C12_FetchErrorSkipsEntry ==
    [][/\ (IsEntry /\ LastOf(log').err)
            => /\ config' = config
               /\ file' = file
               /\ LastOf(log').notify = "none"
               /\ LastOf(log').new = <<>>
               /\ pc' = "loop" /\ i' = i + 1
       /\ IsReturn
            => /\ Len(log) = Len(config.Repositories)
               /\ result'.err = "none"
                    => file'.Repositories = config.Repositories]_vars

\* a cycle about to return: the fetch for the first entry failed, the
\* second entry was checked after it and its cursor moved
C12_Witness ==
    /\ pc = "loop" /\ i > Len(config.Repositories)
    /\ Len(log) = 2
    /\ log[1].err
    /\ config.Repositories[1].LastCommit = log[1].was
    /\ log[2].notify = "ok"
    /\ config.Repositories[2].LastCommit # log[2].was

\* C13: a poll cycle over a non-empty collection leaves config.json alone
\* from its load to the end of its loop, whatever the entries' outcomes, and
\* calls saveConfig once, when every entry has been checked: config.json
\* then holds the whole loaded collection with the cursors of the loop, or,
\* when the write fails, what it held before.
C13_SavedOnceAfterLoop ==
    [][/\ pc' = "loop" => file' = file
       /\ IsReturn
            => /\ Len(log) = Len(config.Repositories)
               /\ Len(log) > 0
               /\ result'.err = "none"
                    => file' = [exists |-> TRUE,
                                Repositories |-> config.Repositories,
                                Template |-> config.Template,
                                Username |-> config.Username,
                                AvatarURL |-> config.AvatarURL]
               /\ result'.err # "none" => file' = file]_vars

\* between the two entries of a cycle: the first cursor has moved in the
\* loaded collection and config.json still holds the old one
C13_Witness ==
    /\ pc = "loop" /\ Len(config.Repositories) = 2 /\ i = 2
    /\ log[1].new # <<>>
    /\ config.Repositories[1].LastCommit # file.Repositories[1].LastCommit
    /\ file.Repositories[1].LastCommit = log[1].was

\* the loop has checked the first Len(log) entries of the stored collection,
\* in stored order, each completely, and has not touched the others
InStoredOrder ==
    /\ i = Len(log) + 1
    /\ Len(log) <= Len(config.Repositories)
    /\ Len(config.Repositories) = Len(file.Repositories)
    /\ \A k \in 1..Len(config.Repositories) :
          /\ config.Repositories[k].URL = file.Repositories[k].URL
          /\ k <= Len(log)
                => /\ log[k].url = file.Repositories[k].URL
                   /\ log[k].was = file.Repositories[k].LastCommit
                   /\ config.Repositories[k].LastCommit = CursorWanted(k)
          /\ k > Len(log)
                => config.Repositories[k] = file.Repositories[k]

IsEarlyReturn == pc = "idle" /\ result'.op = "poll" /\ result' # result

\* C15: while config.json does not exist and nothing else fails, an add of
\* a valid URL of a branch with commits succeeds and writes a collection of
\* that one entry with the built-in template, display name and avatar (an
\* add for a branch without commits fails with EmptyHistory, as it does
\* with a file), a remove fails with NotFound, and a poll finds nothing to
\* monitor; remove and poll leave the file absent.
C15_AbsentFileIsEmptyState ==
    [][~file.exists =>
        /\ IsAdd =>
              IF upstream[KeyOf(result'.url)] = <<>>
                  THEN result'.err = "EmptyHistory" /\ file' = file
                  ELSE /\ result'.err = "none"
                       /\ file'.exists
                       /\ Len(file'.Repositories) = 1
                       /\ file'.Repositories[1].URL = result'.url
                       /\ file'.Template = DefaultTemplate
                       /\ file'.Username = DefaultUsername
                       /\ file'.AvatarURL = DefaultAvatarURL
        /\ IsRemove => result'.err = "NotFound" /\ file' = file
        /\ IsEarlyReturn
              => /\ result'.err = "NothingToMonitor"
                 /\ pc' = "idle" /\ file' = file]_vars

\* an add has written a collection of one entry with the built-in
\* template, display name and avatar
C15_Witness ==
    /\ result.op = "add" /\ result.err = "none"
    /\ file.exists /\ Len(file.Repositories) = 1
    /\ file.Repositories[1].URL = result.url
    /\ file.Template = DefaultTemplate
    /\ file.Username = DefaultUsername
    /\ file.AvatarURL = DefaultAvatarURL

\* the URL is host/owner/repo or host/owner/repo/tree/branch
HasRepoForm(t) ==
    /\ Len(t) \in {3, 5}
    /\ t[1] \in GithubHosts
    /\ t[2] # "" /\ t[3] # ""
    /\ Len(t) = 5 => t[4] = "tree" /\ t[5] # ""

\* the same, with one trailing slash allowed
IsRepoURL(url) ==
    \/ HasRepoForm(url)
    \/ /\ Len(url) >= 2 /\ url[Len(url)] = ""
       /\ HasRepoForm(SubSeq(url, 1, Len(url) - 1))

\* C16 as stated: parseGithubRepoURL succeeds on exactly the URLs of the
\* form host/owner/repo or host/owner/repo/tree/branch, with or without one
\* trailing slash, and then returns the branch given, "main" if none; it
\* fails on every other URL.
C16_ParsesExactlyRepoURLs ==
    (call.op = "parse" /\ call.done) =>
        /\ ~call.out.err <=> IsRepoURL(call.url)
        /\ IsRepoURL(call.url) =>
              call.out.branch = IF Len(TrimSlash(call.url)) = 5
                                    THEN call.url[5] ELSE "main"

\* C17: a notification composed from an empty template, and one composed
\* from what loadConfig returns for a config.json that is absent or holds
\* an empty template, is the rendering of the built-in template for the
\* entry and its new commits: no TemplateError, and a message that is not
\* empty and carries every new commit.
C17_EmptyTemplateRendersDefault ==
    (/\ call.op = "render" /\ call.done
     /\ \/ call.out.via = "given" /\ call.template = ""
        \/ call.out.via = "loaded" /\ (~file.exists \/ file.Template = ""))
        => /\ ~call.out.err
           /\ call.out.text =
                renderTemplate(DefaultTemplate, call.repo, call.commits).text
           /\ call.out.text # <<>>
           /\ \E k \in 1..Len(call.out.text) :
                 call.out.text[k] = Content(call.commits)

\* an empty template was handed to sendDiscordNotification for an entry
\* with a note and two new commits, and the built-in message came out
C17_Witness ==
    /\ call.op = "render" /\ call.done
    /\ call.out.via = "given" /\ call.template = ""
    /\ call.repo.Note = "audit" /\ Len(call.commits) = 2
    /\ Head(call.out.text) = Literal("New Commits Detected!")

\* C18: in a poll cycle each iteration makes one notification attempt, for
\* all the new commits collected for its entry, exactly when that list is
\* not empty: none when the fetch failed and none when the comparison
\* collected nothing, whatever the outcome of the attempt.
C18_NotifiedIffNewCommits ==
    [][IsEntry =>
        LET it == LastOf(log')
        IN  /\ it.notify # "none" <=> it.new # <<>>
            /\ it.err => it.new = <<>>
            /\ ~it.err => it.new = newCommitsOf(it.commits, it.was)
            /\ it.notify \in {"none", "ok", "TemplateError",
                               "DeliveryError"}
            /\ Len(log') = i]_vars

\* one cycle: two new commits were collected for the first entry and one
\* notification attempt was made for it, none was collected for the second
\* entry and no attempt was made
C18_Witness ==
    /\ pc = "loop" /\ Len(log) = 2
    /\ Len(log[1].new) = 2 /\ log[1].notify # "none"
    /\ ~log[2].err /\ log[2].new = <<>> /\ log[2].notify = "none"

\* the entry checked by this iteration, before and after it
Checked == config.Repositories[i]
CheckedAfter == config'.Repositories[i]

\* C19 as stated: whenever a poll cycle changes an entry's LastCommit, the
\* new value is a commit newer than the old one.
C19_CursorOnlyMovesForward ==
    [][(IsEntry /\ CheckedAfter.LastCommit # Checked.LastCommit)
            => CheckedAfter.LastCommit > Checked.LastCommit]_vars

\* C19 amended: whenever a poll cycle changes an entry's LastCommit while
\* the commit it named is still in the history of the entry's branch, the
\* new value is a commit newer than the old one; and config.json only ever
\* takes an entry's cursor from the loop of the cycle that saves.
C19_CursorMovesForwardOnKeptHistory ==
    [][/\ (/\ IsEntry
           /\ CheckedAfter.LastCommit # Checked.LastCommit
           /\ Checked.LastCommit \in Range(upstream[KeyOf(Checked.URL)]))
            => CheckedAfter.LastCommit > Checked.LastCommit
       /\ IsReturn
            => \A k \in 1..Len(file.Repositories) :
                  file'.Repositories[k].LastCommit \in
                      {file.Repositories[k].LastCommit,
                       config.Repositories[k].LastCommit}]_vars

\* the cursor of the entry just checked moved forward from a commit that is
\* still in the branch's history but no longer on the fetched page
C19_Witness ==
    /\ pc = "loop" /\ log # <<>>
    /\ LastOf(log).was \in Range(upstream[KeyOf(LastOf(log).url)])
    /\ LastOf(log).was \notin Range(LastOf(log).commits)
    /\ config.Repositories[Len(log)].LastCommit > LastOf(log).was

\* b is a with, at most, another LastCommit
SameEntry(a, b) == b = [a EXCEPT !.LastCommit = b.LastCommit]

\* C20: an iteration of the loop leaves the number and the order of the
\* loaded entries and their URL, Owner, Repo, Branch and Note as they are,
\* and changes a LastCommit only of the entry it checks and only when it
\* collected new commits for it; the save of the cycle stores those
\* entries, so config.json differs from what it held in the LastCommit of
\* the changed entries at most, and in nothing when the write fails.
C20_PollOnlyMovesCursors ==
    [][/\ IsEntry
            => /\ Len(config'.Repositories) = Len(config.Repositories)
               /\ \A k \in 1..Len(config.Repositories) :
                     /\ SameEntry(config.Repositories[k],
                                   config'.Repositories[k])
                     /\ config'.Repositories[k] # config.Repositories[k]
                          => k = i /\ LastOf(log').new # <<>>
       /\ IsReturn
            => /\ Len(file'.Repositories) = Len(file.Repositories)
               /\ \A k \in 1..Len(file.Repositories) :
                     /\ SameEntry(file.Repositories[k],
                                   file'.Repositories[k])
                     /\ file'.Repositories[k] # file.Repositories[k]
                          => log[k].new # <<>> /\ result'.err = "none"]_vars

\* a cycle about to save two entries with different notes: the cursor of
\* the first has moved, the second is as it was loaded
C20_Witness ==
    /\ pc = "loop" /\ i > Len(config.Repositories)
    /\ Len(log) = 2
    /\ config.Repositories[1].Note # config.Repositories[2].Note
    /\ config.Repositories[1] # file.Repositories[1]
    /\ SameEntry(file.Repositories[1], config.Repositories[1])
    /\ config.Repositories[2] = file.Repositories[2]

\* C21: for an entry whose branch only grows, by at most a page of commits
\* between two checks of the entry, and whose fetches and cycle saves all
\* succeed, a commit that landed after the entry was added is collected as
\* new by exactly one poll cycle: by the first cycle that checks the entry
\* after the commit landed, and by none after it.
C21_LandedCommitCollectedOnce ==
    (landed.ok /\ landed.polled) => landed.seen = 1

\* a full page of commits landed between two checks of the entry; the cycle
\* collected the page, the commit followed the oldest of it
C21_Witness ==
    /\ pc = "loop" /\ log # <<>>
    /\ landed.ok /\ landed.polled /\ landed.seen = 1
    /\ LastOf(log).url = landed.url
    /\ Len(LastOf(log).new) = PerPage
    /\ LastOf(log).new[PerPage] = landed.commit
    /\ LastOf(log).was \notin Range(LastOf(log).commits)

\* C22: the save of a poll cycle writes the collection the cycle loaded,
\* with its cursors, over whatever config.json holds.  When no add or
\* remove succeeded during the loop, config.json keeps its entries; when an
\* add did, the entry it stored (unless the cycle had loaded one of that
\* URL) is gone after the save, and when a remove did, the entry it deleted
\* is back.
C22_OverlapLosesUpdate ==
    [][(IsReturn /\ result'.err = "none")
        => /\ file'.Repositories = config.Repositories
           /\ overlap.op = "none"
                => URLsOf(file'.Repositories) = URLsOf(file.Repositories)
           /\ (/\ overlap.op = "add"
               /\ overlap.url \notin URLsOf(config.Repositories))
                => /\ overlap.url \in URLsOf(file.Repositories)
                   /\ overlap.url \notin URLsOf(file'.Repositories)
           /\ (/\ overlap.op = "remove"
               /\ overlap.url \in URLsOf(config.Repositories))
                => /\ overlap.url \notin URLsOf(file.Repositories)
                   /\ overlap.url \in URLsOf(file'.Repositories)]_vars

\* a cycle has returned and saved; the entry that an add stored during its
\* loop is not in config.json
C22_Witness ==
    /\ pc = "idle"
    /\ result = Result("poll", <<>>, "", "none")
    /\ overlap.op = "add" /\ overlap.lost
    /\ overlap.url \notin URLsOf(file.Repositories)
    /\ Len(file.Repositories) = 1

\* C23: when the branch of an entry has no commit, a check of the entry
\* whose request succeeds is not an error and collects nothing; the
\* iteration sends no notification, leaves the loaded collection as it is
\* and goes on to the next entry.  An add for such a branch fails with
\* EmptyHistory.
C23_EmptyListingIsUnchanged ==
    [][/\ IsEntry
            => LET it == LastOf(log')
                   c  == checkForNewCommits(Checked, "ok")
               IN  /\ upstream[KeyOf(Checked.URL)] = <<>>
                        => ~c.err /\ c.commits = <<>> /\ c.new = <<>>
                   /\ (~it.err /\ it.commits = <<>>)
                        => /\ it.new = <<>>
                           /\ it.notify = "none"
                           /\ config' = config
                           /\ pc' = "loop" /\ i' = i + 1
       /\ (IsAdd /\ upstream[KeyOf(result'.url)] = <<>>)
            => /\ result'.err \in {"EmptyHistory", "DuplicateEntry"}
               /\ file' = file]_vars

\* the branch of a stored entry has lost its commits; the cycle fetched an
\* empty listing for the entry and left its cursor alone
C23_Witness ==
    /\ pc = "loop" /\ log # <<>>
    /\ ~LastOf(log).err /\ LastOf(log).commits = <<>>
    /\ LastOf(log).notify = "none"
    /\ config.Repositories[Len(log)].LastCommit = LastOf(log).was
    /\ LastOf(log).was \in CommitIds

\* the step is the start of checkRepositories: its load and what follows
\* up to the loop
IsLoad == pc = "idle" /\ result'.op = "poll" /\ result' # result

\* C24: checkRepositories returns before its loop exactly when config.json
\* cannot be loaded or holds no entry (an absent file among these); it then
\* checks no entry, so fetches and notifies nothing, and config.json, the
\* loaded collection and the platform are as they were.  The load itself
\* never writes.
C24_EarlyReturnChangesNothing ==
    [][IsLoad =>
        /\ file' = file /\ upstream' = upstream
        /\ result'.err \in {"LoadError", "NothingToMonitor", "running"}
        /\ Len(file.Repositories) = 0 => result'.err # "running"
        /\ result'.err = "NothingToMonitor"
              => Len(file.Repositories) = 0
        /\ result'.err # "running"
              => /\ pc' = "idle" /\ log' = <<>>
                 /\ config' = config /\ i' = i
        /\ result'.err = "running"
              => pc' = "loop" /\ Len(config'.Repositories) > 0]_vars

\* a poll has returned because config.json, which holds two entries, could
\* not be loaded
C24_Witness ==
    /\ pc = "idle"
    /\ result = Result("poll", <<>>, "", "LoadError")
    /\ Len(file.Repositories) = 2
    /\ log = <<>>

====
